---- MODULE Spec2Model ----
(***************************************************************************)
(* click_completion.py: the tokenizer (split_args), the quoting helpers    *)
(* (single_quote, double_quote), the context resolver (resolve_ctx), the   *)
(* candidate classifier (get_choices), the four shell adapters and the     *)
(* dispatch entry point (_shellcomplete).                                  *)
(*                                                                         *)
(* A string is a sequence of one-character strings.  An optional value     *)
(* (Python's None or a value) is a sequence of length 0 or 1.              *)
(***************************************************************************)
EXTENDS Integers, Sequences, FiniteSets, TLC

VARIABLES
    pc,          \* control point of the running call
    instr,       \* os.environ.get(complete_var): <<>> (unset) or <<value>>
    line,        \* COMP_WORDS / COMMANDLINE, or the argument of a pure function
    cword,       \* int(os.environ['COMP_CWORD'])
    args,        \* get_choices' args
    incomplete,  \* get_choices' incomplete
    quoted,      \* do_bash_complete's quoted
    quote,       \* do_powershell_complete's quote: "single" or "double"
    ctx,         \* resolve_ctx's ctx: NoCtx or [command, residual]
    iters,       \* iterations of resolve_ctx's loop taken so far
    regime,      \* the branch of get_choices that gathered the choices (0: none)
    choices,     \* get_choices' choices
    out,         \* what was written to standard output
    ran,         \* the routines _shellcomplete called, in order
    tokens       \* the result of a direct call of split_args

vars == <<pc, instr, line, cword, args, incomplete, quoted, quote, ctx, iters,
          regime, choices, out, ran, tokens>>

----------------------------------------------------------------------------
(* Bounds *)

MaxLineLen == 4
MaxQuoteLen == 3
MaxArgs == 3
MaxCword == 2

----------------------------------------------------------------------------
(* Strings *)

None == <<>>
Some(x) == <<x>>

RECURSIVE Concat(_)
Concat(ss) == IF ss = <<>> THEN <<>> ELSE Head(ss) \o Concat(Tail(ss))

RECURSIVE Join(_, _)
Join(sep, ss) ==
    IF ss = <<>> THEN <<>>
    ELSE IF Len(ss) = 1 THEN ss[1]
    ELSE ss[1] \o sep \o Join(sep, Tail(ss))

Last(s) == s[Len(s)]
Front(s) == SubSeq(s, 1, Len(s) - 1)

StringsUpTo(chars, n) == UNION {[1..k -> chars] : k \in 0..n}

\* str.startswith
StrStartsWith(string, prefix) ==
    /\ Len(prefix) <= Len(string)
    /\ SubSeq(string, 1, Len(prefix)) = prefix

\* str.endswith
StrEndsWith(string, suffix) ==
    /\ Len(suffix) <= Len(string)
    /\ SubSeq(string, Len(string) - Len(suffix) + 1, Len(string)) = suffix

\* str.rfind: the highest 0-based index where sub occurs, or -1
RFind(string, sub) ==
    LET hits == {i \in 0..(Len(string) - Len(sub)) :
                    SubSeq(string, i + 1, i + Len(sub)) = sub}
    IN  IF hits = {} THEN -1 ELSE CHOOSE i \in hits : \A j \in hits : j <= i

Letters == {"a", "b", "g", "h", "p", "x", "y", "z"}
Digits == {"0"}
\* str.isalnum on one character
IsAlnum(c) == c \in Letters \cup Digits
\* the regular expression class \s
IsSpace(c) == c \in {" ", "\t", "\n", "\r", "\f"}
\* the regular expression class \w
IsWord(c) == IsAlnum(c) \/ c = "_"

----------------------------------------------------------------------------
(* shlex.shlex(line, posix=True), whitespace_split = True, commenters = '' *)

ShlexWhitespace == {" ", "\t", "\r", "\n"}
ShlexQuotes == {"'", "\""}
ShlexEscape == {"\\"}
ShlexEscapedQuotes == {"\""}

\* The lexer after the loop of next(lex) ended: the tokens returned, the
\* token left in lex.token, and the exception that ended the loop
\* ("stop": StopIteration, "quote": No closing quotation, "escape": No
\* escaped character).
LexEnd(res, token, err) == [res |-> res, token |-> token, err |-> err]

RECURSIVE ReadToken(_, _, _, _, _, _, _)
RECURSIVE EmitToken(_, _, _, _, _, _)

\* The end of read_token (its break), and the next call of next(lex).
EmitToken(s, i, state, isquoted, token, res) ==
    IF ~isquoted /\ token = <<>>
    THEN LexEnd(res, <<>>, "stop")
    ELSE ReadToken(s, i, state, " ", FALSE, <<>>, Append(res, token))

\* One turn of read_token's loop: i is the 1-based place of nextchar.
ReadToken(s, i, state, escapedstate, isquoted, token, res) ==
    LET eof == i > Len(s)
        c == IF eof THEN "" ELSE s[i]
    IN
    IF state = "EOF" THEN
        EmitToken(s, i, state, isquoted, <<>>, res)
    ELSE IF state = " " THEN
        IF eof THEN EmitToken(s, i, "EOF", isquoted, token, res)
        ELSE IF c \in ShlexWhitespace THEN
            IF token # <<>> \/ isquoted
            THEN EmitToken(s, i + 1, state, isquoted, token, res)
            ELSE ReadToken(s, i + 1, state, escapedstate, isquoted, token, res)
        ELSE IF c \in ShlexEscape THEN
            ReadToken(s, i + 1, c, "a", isquoted, token, res)
        ELSE IF c \in ShlexQuotes THEN
            ReadToken(s, i + 1, c, escapedstate, isquoted, token, res)
        ELSE
            ReadToken(s, i + 1, "a", escapedstate, isquoted, <<c>>, res)
    ELSE IF state \in ShlexQuotes THEN
        IF eof THEN LexEnd(res, token, "quote")
        ELSE IF c = state THEN
            ReadToken(s, i + 1, "a", escapedstate, TRUE, token, res)
        ELSE IF c \in ShlexEscape /\ state \in ShlexEscapedQuotes THEN
            ReadToken(s, i + 1, c, state, TRUE, token, res)
        ELSE
            ReadToken(s, i + 1, state, escapedstate, TRUE, Append(token, c), res)
    ELSE IF state \in ShlexEscape THEN
        IF eof THEN LexEnd(res, token, "escape")
        ELSE IF escapedstate \in ShlexQuotes /\ c # state /\ c # escapedstate THEN
            ReadToken(s, i + 1, escapedstate, escapedstate, isquoted,
                      token \o <<state, c>>, res)
        ELSE
            ReadToken(s, i + 1, escapedstate, escapedstate, isquoted,
                      Append(token, c), res)
    ELSE \* state = "a"
        IF eof THEN EmitToken(s, i, "EOF", isquoted, token, res)
        ELSE IF c \in ShlexWhitespace THEN
            IF token # <<>> \/ isquoted
            THEN EmitToken(s, i + 1, " ", isquoted, token, res)
            ELSE ReadToken(s, i + 1, " ", escapedstate, isquoted, token, res)
        ELSE IF c \in ShlexQuotes THEN
            ReadToken(s, i + 1, c, escapedstate, isquoted, token, res)
        ELSE IF c \in ShlexEscape THEN
            ReadToken(s, i + 1, c, "a", isquoted, token, res)
        ELSE
            ReadToken(s, i + 1, state, escapedstate, isquoted, Append(token, c), res)

\* The loop `while True: res.append(next(lex))` run to its exception.
Lex(s) == ReadToken(s, 1, " ", " ", FALSE, <<>>, <<>>)

\* shlex.split raised ValueError
ShlexSplitRaises(s) == Lex(s).err # "stop"
\* shlex.split(s), when it does not raise
ShlexSplit(s) == Lex(s).res

\* the token in progress is dropped
split_args_drops_partial(s) == Lex(s).res

split_args(s) ==
    LET lex == Lex(s)
    IN  IF lex.token # <<>> THEN Append(lex.res, lex.token) ELSE lex.res

----------------------------------------------------------------------------
(* Quoting utilities *)

SafePunctuation == {"@", "%", "+", "=", ":", ",", ".", "/", "-"}

\* the class without its "-"
find_unsafe_no_dash(s) ==
    \E i \in 1..Len(s) : ~(IsWord(s[i]) \/ s[i] \in SafePunctuation \ {"-"})

\* find_unsafe(s) is not None: some character is outside [\w@%+=:,./-]
find_unsafe(s) == \E i \in 1..Len(s) : ~(IsWord(s[i]) \/ s[i] \in SafePunctuation)

\* str.replace of a one-character string
RECURSIVE Replace(_, _, _)
Replace(s, old, new) ==
    IF s = <<>> THEN <<>>
    ELSE (IF Head(s) = old THEN new ELSE <<Head(s)>>) \o Replace(Tail(s), old, new)

single_quote(s) ==
    IF s = <<>> THEN <<"'", "'">>
    ELSE IF ~find_unsafe(s) THEN s
    ELSE <<"'">> \o Replace(s, "'", <<"'", "\"", "'", "\"", "'">>) \o <<"'">>

double_quote(s) ==
    IF s = <<>> THEN <<"\"", "\"">>
    ELSE IF ~find_unsafe(s) THEN s
    ELSE <<"\"">> \o Replace(s, "\"", <<"\"", "'", "\"", "'", "\"">>) \o <<"\"">>

----------------------------------------------------------------------------
(* The command tree handed to the resolver: click objects, read only.      *)
(* A parameter is an Option or an Argument; a type is a ParamType (no      *)
(* completion), a Choice (bare strings) or a DocumentedChoice (pairs).     *)

PlainType == [name |-> "ParamType", choices |-> <<>>]
Choice(values) ==
    [name |-> "Choice", choices |-> [i \in 1..Len(values) |-> [c |-> values[i], v |-> None]]]
DocumentedChoice(pairs) == [name |-> "DocumentedChoice", choices |-> pairs]

Option(opts, secondary_opts, is_flag, help, type) ==
    [class |-> "Option", opts |-> opts, secondary_opts |-> secondary_opts,
     is_flag |-> is_flag, help |-> help, type |-> type]
Argument(type) ==
    [class |-> "Argument", opts |-> <<>>, secondary_opts |-> <<>>,
     is_flag |-> FALSE, help |-> None, type |-> type]

FileOption ==
    Option(<< <<"-", "f">> >>, <<>>, FALSE, Some(<<"h", "f">>),
           Choice(<< <<"x">>, <<"y">> >>))
\* a value option that also has a secondary spelling
ModeOption ==
    Option(<< <<"-", "m">> >>, << <<"-", "M">> >>, FALSE, None,
           Choice(<< <<"x">>, <<"-", "x">> >>))
VerboseOption ==
    Option(<< <<"-", "v">>, <<"-", "-", "v">> >>, << <<"-", "n">> >>, TRUE,
           Some(<<"h", "v">>), PlainType)
HelpOption ==
    Option(<< <<"-", "-", "h">> >>, <<>>, TRUE, Some(<<"h">>), PlainType)
NameArgument ==
    Argument(DocumentedChoice(<<
        [c |-> <<"x", " ", "y">>, v |-> Some(<<"h">>)],
        [c |-> <<"x", "'">>, v |-> None],
        [c |-> <<"\\", "\"">>, v |-> None],
        [c |-> <<"$", "\t">>, v |-> Some(<<"'">>)] >>))
KindArgument == Argument(Choice(<< <<"a", "b">>, <<"x">> >>))
PlainArgument == Argument(PlainType)

\* A command: MultiCommand or not, its get_params, its list_commands (names,
\* each with the command get_command gives for it) and its short_help.
Commands ==
    [cli |-> [multi |-> TRUE,
              params |-> <<VerboseOption, HelpOption>>,
              commands |-> << [name |-> <<"a">>, cmd |-> "add"],
                              [name |-> <<"a", "g">>, cmd |-> "grp"],
                              [name |-> <<"x", " ">>, cmd |-> "run"] >>,
              short_help |-> None],
     add |-> [multi |-> FALSE,
              params |-> <<FileOption, NameArgument, VerboseOption, KindArgument,
                           HelpOption>>,
              commands |-> <<>>,
              short_help |-> Some(<<"h", "a">>)],
     grp |-> [multi |-> TRUE,
              params |-> <<ModeOption, HelpOption>>,
              commands |-> << [name |-> <<"g", "o">>, cmd |-> "run"] >>,
              short_help |-> None],
     run |-> [multi |-> FALSE,
              params |-> <<PlainArgument, HelpOption>>,
              commands |-> <<>>,
              short_help |-> Some(<<"h", "r">>)]]

Root == "cli"

\* isinstance(ctx.command, MultiCommand)
IsMultiCommand(cmd) == Commands[cmd].multi
\* ctx.command.get_params(ctx)
get_params(cmd) == Commands[cmd].params
\* ctx.command.list_commands(ctx)
list_commands(cmd) ==
    [i \in 1..Len(Commands[cmd].commands) |-> Commands[cmd].commands[i].name]
\* ctx.command.get_command(ctx, name): None or the command
get_command(cmd, name) ==
    LET hits == {i \in 1..Len(Commands[cmd].commands) :
                    Commands[cmd].commands[i].name = name}
    IN  IF hits = {} THEN None
        ELSE Some(Commands[cmd].commands[CHOOSE i \in hits : TRUE].cmd)
\* multicommand_get_command_short_help
get_command_short_help(cmd, name) == Commands[get_command(cmd, name)[1]].short_help

----------------------------------------------------------------------------
(* resolve_ctx *)

NoCtx == [command |-> "None", residual |-> <<>>]

RECURSIVE Pick(_, _, _)
\* the elements of a at the places in keep, in order
Pick(a, keep, i) ==
    IF i > Len(a) THEN <<>>
    ELSE (IF i \in keep THEN <<a[i]>> ELSE <<>>) \o Pick(a, keep, i + 1)

\* cmd.make_context(name, a, resilient_parsing=True): click's parser takes
\* the options and arguments of cmd it recognises out of a and leaves the
\* rest, in order, in protected_args + args; in resilient mode it does not
\* raise.  Which elements it takes is click's business: any choice is allowed.
make_context(cmd, a) ==
    {[command |-> cmd, residual |-> Pick(a, keep, 1)] : keep \in SUBSET (1..Len(a))}

\* the child context given the parent's residual whole
child_args_whole(a) == a

\* a[1:], the arguments the child context is given
child_args(a) == Tail(a)

\* line 104
ResolveStart ==
    /\ pc = "get_choices"
    /\ ctx' \in make_context(Root, args)
    /\ iters' = 0
    /\ pc' = "resolve_loop"
    /\ UNCHANGED <<instr, line, cword, args, incomplete, quoted, quote, regime,
                   choices, out, ran, tokens>>

\* the loop condition of line 105
ResolveContinues ==
    /\ ctx.residual # <<>>
    /\ IsMultiCommand(ctx.command)

\* lines 105-110, get_command found the subcommand
ResolveDescend ==
    /\ pc = "resolve_loop"
    /\ ResolveContinues
    /\ LET a == ctx.residual
           cmd == get_command(ctx.command, a[1])
       IN  /\ cmd # None
           /\ ctx' \in make_context(cmd[1], child_args(a))
    /\ iters' = iters + 1
    /\ UNCHANGED <<pc, instr, line, cword, args, incomplete, quoted, quote, regime,
                   choices, out, ran, tokens>>

\* an unknown name ends the loop with the context reached so far
ResolveFail_keeps_ctx ==
    /\ pc = "resolve_loop"
    /\ ResolveContinues
    /\ get_command(ctx.command, ctx.residual[1]) = None
    /\ iters' = iters + 1
    /\ pc' = "resolved"
    /\ UNCHANGED <<instr, line, cword, args, incomplete, quoted, quote, ctx, regime,
                   choices, out, ran, tokens>>

\* lines 105-109, get_command gave None
ResolveFail ==
    /\ pc = "resolve_loop"
    /\ ResolveContinues
    /\ get_command(ctx.command, ctx.residual[1]) = None
    /\ ctx' = NoCtx
    /\ iters' = iters + 1
    /\ pc' = "resolved"
    /\ UNCHANGED <<instr, line, cword, args, incomplete, quoted, quote, regime,
                   choices, out, ran, tokens>>

\* lines 105 and 111, the loop condition is false
ResolveReturn ==
    /\ pc = "resolve_loop"
    /\ ~ResolveContinues
    /\ pc' = "resolved"
    /\ UNCHANGED <<instr, line, cword, args, incomplete, quoted, quote, ctx, iters,
                   regime, choices, out, ran, tokens>>

----------------------------------------------------------------------------
(* get_choices *)

Range(s) == {s[i] : i \in 1..Len(s)}

\* startswith(string, incomplete)
startswith(string, inc) == StrStartsWith(string, inc)

\* the condition of line 129
is_pending_option(param, last) ==
    /\ param.class = "Option"
    /\ ~param.is_flag
    /\ last \in Range(param.opts \o param.secondary_opts)

RECURSIVE find_optctx(_, _, _)
\* the loop of lines 128-130: every match overwrites optctx
find_optctx(params, last, optctx) ==
    IF params = <<>> THEN optctx
    ELSE find_optctx(Tail(params), last,
                     IF is_pending_option(Head(params), last)
                     THEN Some(Head(params)) ELSE optctx)

\* lines 126-130
optctx_of(cmd, a) ==
    IF a = <<>> THEN None ELSE find_optctx(get_params(cmd), Last(a), None)

\* type.complete(ctx, incomplete): param_type_complete, choice_complete and
\* DocumentedChoice.complete.  A result element is a bare string (tuple
\* FALSE) or a pair (tuple TRUE).
type_complete(type, inc) ==
    LET Matches(e) == startswith(e.c, inc)
        hits == SelectSeq(type.choices, Matches)
    IN  IF type.name = "ParamType" THEN <<>>
        ELSE [i \in 1..Len(hits) |->
                [tuple |-> type.name = "DocumentedChoice", c |-> hits[i].c, v |-> hits[i].v]]

\* [c if isinstance(c, tuple) else (c, None) for c in ...]
normalize(results) ==
    [i \in 1..Len(results) |->
        IF results[i].tuple
        THEN [item |-> results[i].c, help |-> results[i].v]
        ELSE [item |-> results[i].c, help |-> None]]

\* line 134
option_value_choices(optctx, inc) == normalize(type_complete(optctx.type, inc))

\* lines 139-141 for one param
primary_choices(param, inc) ==
    LET Matches(opt) == startswith(opt, inc)
        hits == SelectSeq(param.opts, Matches)
    IN  [i \in 1..Len(hits) |-> [item |-> hits[i], help |-> param.help]]

\* the secondary spellings given the option's help like the primary ones
secondary_choices_with_help(param, inc) ==
    LET Matches(opt) == startswith(opt, inc)
        hits == SelectSeq(param.secondary_opts, Matches)
    IN  [i \in 1..Len(hits) |-> [item |-> hits[i], help |-> param.help]]

\* lines 142-146 for one param
secondary_choices(param, inc) ==
    LET Matches(opt) == startswith(opt, inc)
        hits == SelectSeq(param.secondary_opts, Matches)
    IN  [i \in 1..Len(hits) |-> [item |-> hits[i], help |-> None]]

RECURSIVE option_name_choices(_, _)
\* lines 136-146
option_name_choices(params, inc) ==
    IF params = <<>> THEN <<>>
    ELSE (IF Head(params).class # "Option" THEN <<>>
          ELSE primary_choices(Head(params), inc) \o secondary_choices(Head(params), inc))
         \o option_name_choices(Tail(params), inc)

\* lines 148-150
subcommand_choices(cmd, inc) ==
    LET Matches(name) == startswith(name, inc)
        hits == SelectSeq(list_commands(cmd), Matches)
    IN  [i \in 1..Len(hits) |->
            [item |-> hits[i], help |-> get_command_short_help(cmd, hits[i])]]

RECURSIVE positional_choices(_, _)
\* lines 152-154
positional_choices(params, inc) ==
    IF params = <<>> THEN <<>>
    ELSE (IF Head(params).class = "Argument"
          THEN normalize(type_complete(Head(params).type, inc)) ELSE <<>>)
         \o positional_choices(Tail(params), inc)

\* the option-name test made before the pending-option test
choose_regime_names_first(optctx, inc, cmd) ==
    IF inc # <<>> /\ ~IsAlnum(inc[1]) THEN 2
    ELSE IF optctx # None THEN 1
    ELSE IF IsMultiCommand(cmd) THEN 3
    ELSE 4

\* the if/elif chain of lines 133, 135, 147, 151: the branch taken
choose_regime(optctx, inc, cmd) ==
    IF optctx # None THEN 1
    ELSE IF inc # <<>> /\ ~IsAlnum(inc[1]) THEN 2
    ELSE IF IsMultiCommand(cmd) THEN 3
    ELSE 4

\* lines 132-154
gather(r, optctx, inc, cmd) ==
    CASE r = 1 -> option_value_choices(optctx[1], inc)
      [] r = 2 -> option_name_choices(get_params(cmd), inc)
      [] r = 3 -> subcommand_choices(cmd, inc)
      [] OTHER -> positional_choices(get_params(cmd), inc)

\* lines 123-157, after resolve_ctx returned
GetChoices ==
    /\ pc = "resolved"
    /\ IF ctx = NoCtx
       THEN /\ regime' = 0
            /\ choices' = <<>>
       ELSE LET optctx == optctx_of(ctx.command, args)
                r == choose_regime(optctx, incomplete, ctx.command)
            IN  /\ regime' = r
                /\ choices' = gather(r, optctx, incomplete, ctx.command)
    /\ pc' = "chosen"
    /\ UNCHANGED <<instr, line, cword, args, incomplete, quoted, quote, ctx, iters,
                   out, ran, tokens>>

----------------------------------------------------------------------------
(* A direct call of get_choices(cli, prog_name, args, incomplete) *)

ArgTokens ==
    { <<"a">>, <<"a", "g">>, <<"g", "o">>, <<"-", "f">>, <<"-", "m">>, <<"-", "M">>,
      <<"-", "v">>, <<"x">>, <<"z", "z">> }
Incompletes ==
    { <<>>, <<"-">>, <<"-", "-">>, <<"-", "v">>, <<"a">>, <<"x">>, <<"_">> }

InitChoices ==
    /\ pc = "get_choices"
    /\ args \in StringsUpTo(ArgTokens, MaxArgs)
    /\ incomplete \in Incompletes
    /\ instr = None /\ line = <<>> /\ cword = 0
    /\ quoted = FALSE /\ quote = "single"
    /\ ctx = NoCtx /\ iters = 0 /\ regime = 0 /\ choices = <<>>
    /\ out = <<>> /\ ran = <<>> /\ tokens = <<>>

NextChoices ==
    \/ ResolveStart
    \/ ResolveDescend
    \/ ResolveFail
    \/ ResolveReturn
    \/ GetChoices

SpecChoices == InitChoices /\ [][NextChoices]_vars

----------------------------------------------------------------------------
(* The shell adapters *)

\* s[1:]
Rest(s) == IF s = <<>> THEN <<>> ELSE Tail(s)

\* cwords[1:cword], for cword >= 0
bash_args(cwords, n) ==
    IF n < 2 \/ Len(cwords) < 2 THEN <<>>
    ELSE SubSeq(cwords, 2, IF n < Len(cwords) THEN n ELSE Len(cwords))

\* lines 197-200: cwords[cword], or '' on IndexError
bash_incomplete(cwords, n) == IF n + 1 <= Len(cwords) THEN cwords[n + 1] ELSE <<>>

\* lines 189-194: shlex.split, or split_args when it raises
bash_cwords(comp_words) ==
    IF ShlexSplitRaises(comp_words)
    THEN [cwords |-> split_args(comp_words), quoted |-> TRUE]
    ELSE [cwords |-> ShlexSplit(comp_words), quoted |-> FALSE]

\* lines 188-201
DoBashComplete ==
    /\ pc = "do_bash_complete"
    /\ LET c == bash_cwords(line)
       IN  /\ quoted' = c.quoted
           /\ args' = bash_args(c.cwords, cword)
           /\ incomplete' = bash_incomplete(c.cwords, cword)
    /\ pc' = "get_choices"
    /\ UNCHANGED <<instr, line, cword, quote, ctx, iters, regime, choices, out, ran,
                   tokens>>

\* the character class [\s\\"'] left out the single quote
bash_special_no_quote(c) == IsSpace(c) \/ c \in {"\\", "\""}

\* the character class [\s\\"'] of line 206
bash_special(c) == IsSpace(c) \/ c \in {"\\", "\"", "'"}

RECURSIVE bash_escape(_)
\* re.sub(r"""([\s\\"'])""", r'\\\1', opt)
bash_escape(opt) ==
    IF opt = <<>> THEN <<>>
    ELSE (IF bash_special(Head(opt)) THEN <<"\\", Head(opt)>> ELSE <<Head(opt)>>)
         \o bash_escape(Tail(opt))

\* lines 203-206: the text echoed, without a newline
bash_output(cs, isquoted) ==
    Join(<<"\t">>, [i \in 1..Len(cs) |->
                      IF isquoted THEN cs[i].item ELSE bash_escape(cs[i].item)])

\* lines 203-208, then sys.exit() of line 334
EmitBash ==
    /\ pc = "chosen"
    /\ instr = Some("complete")
    /\ out' = out \o bash_output(choices, quoted)
    /\ pc' = "exited"
    /\ UNCHANGED <<instr, line, cword, args, incomplete, quoted, quote, ctx, iters,
                   regime, choices, ran, tokens>>

\* lines 213-218
fish_args(commandline) ==
    LET a == Rest(split_args(commandline))
    IN  IF a # <<>> /\ ~StrEndsWith(commandline, <<" ">>)
        THEN [args |-> Front(a), incomplete |-> Last(a)]
        ELSE [args |-> a, incomplete |-> <<>>]

\* lines 212-218
DoFishComplete ==
    /\ pc = "do_fish_complete"
    /\ args' = fish_args(line).args
    /\ incomplete' = fish_args(line).incomplete
    /\ pc' = "get_choices"
    /\ UNCHANGED <<instr, line, cword, quoted, quote, ctx, iters, regime, choices,
                   out, ran, tokens>>

\* `if help`: neither None nor ''
Truthy(help) == help # None /\ help[1] # <<>>

RECURSIVE fish_output(_)
\* lines 220-224: one echo per candidate
fish_output(cs) ==
    IF cs = <<>> THEN <<>>
    ELSE (IF Truthy(Head(cs).help)
          THEN Head(cs).item \o <<"\t">> \o Head(cs).help[1] \o <<"\n">>
          ELSE Head(cs).item \o <<"\n">>)
         \o fish_output(Tail(cs))

\* lines 220-226, then sys.exit() of line 334
EmitFish ==
    /\ pc = "chosen"
    /\ instr = Some("complete-fish")
    /\ out' = out \o fish_output(choices)
    /\ pc' = "exited"
    /\ UNCHANGED <<instr, line, cword, args, incomplete, quoted, quote, ctx, iters,
                   regime, choices, ran, tokens>>

\* lines 231-236
zsh_args(commandline) ==
    LET a == Rest(split_args(commandline))
    IN  IF a # <<>> /\ ~StrEndsWith(commandline, <<" ">>)
        THEN [args |-> Front(a), incomplete |-> Last(a)]
        ELSE [args |-> a, incomplete |-> <<>>]

\* lines 230-236
DoZshComplete ==
    /\ pc = "do_zsh_complete"
    /\ args' = zsh_args(line).args
    /\ incomplete' = zsh_args(line).incomplete
    /\ pc' = "get_choices"
    /\ UNCHANGED <<instr, line, cword, quoted, quote, ctx, iters, regime, choices,
                   out, ran, tokens>>

\* lines 238-239
zsh_escape(s) ==
    Replace(Replace(Replace(s, "\"", <<"\"", "\"">>), "'", <<"'", "'">>),
            "$", <<"\\", "$">>)

\* lines 242-245
zsh_item(c) ==
    IF Truthy(c.help)
    THEN <<"\"">> \o zsh_escape(c.item) \o <<"\"", "\\", ":", "\"">>
         \o zsh_escape(c.help[1]) \o <<"\"">>
    ELSE <<"\"">> \o zsh_escape(c.item) \o <<"\"">>

\* line 246: the template's two parts are single elements
zsh_output(cs) ==
    <<"_arguments '*: :((">>
    \o Join(<<"\n">>, [i \in 1..Len(cs) |-> zsh_item(cs[i])])
    \o <<"))'", "\n">>

\* lines 240-248, then sys.exit() of line 334
EmitZsh ==
    /\ pc = "chosen"
    /\ instr = Some("complete-zsh")
    /\ out' = out \o zsh_output(choices)
    /\ pc' = "exited"
    /\ UNCHANGED <<instr, line, cword, args, incomplete, quoted, quote, ctx, iters,
                   regime, choices, ran, tokens>>

\* lines 253-261
powershell_args(commandline) ==
    LET a == Rest(split_args(commandline))
    IN  IF a # <<>> /\ ~StrEndsWith(commandline, <<" ">>)
        THEN LET quote_pos == RFind(commandline, Last(a)) - 1
             IN  [args |-> Front(a), incomplete |-> Last(a),
                  quote |-> IF quote_pos >= 0 /\ commandline[quote_pos + 1] = "\""
                            THEN "double" ELSE "single"]
        ELSE [args |-> a, incomplete |-> <<>>, quote |-> "single"]

\* lines 252-261
DoPowershellComplete ==
    /\ pc = "do_powershell_complete"
    /\ args' = powershell_args(line).args
    /\ incomplete' = powershell_args(line).incomplete
    /\ quote' = powershell_args(line).quote
    /\ pc' = "get_choices"
    /\ UNCHANGED <<instr, line, cword, quoted, ctx, iters, regime, choices, out, ran,
                   tokens>>

RECURSIVE powershell_output(_, _)
\* lines 263-264
powershell_output(cs, q) ==
    IF cs = <<>> THEN <<>>
    ELSE (IF q = "double" THEN double_quote(Head(cs).item)
          ELSE single_quote(Head(cs).item))
         \o <<"\n">> \o powershell_output(Tail(cs), q)

\* lines 263-266, then sys.exit() of line 334
EmitPowershell ==
    /\ pc = "chosen"
    /\ instr = Some("complete-powershell")
    /\ out' = out \o powershell_output(choices, quote)
    /\ pc' = "exited"
    /\ UNCHANGED <<instr, line, cword, args, incomplete, quoted, quote, ctx, iters,
                   regime, choices, ran, tokens>>

----------------------------------------------------------------------------
(* _shellcomplete *)

\* the zsh and powershell branches taken for each other
routine_for_swapped(value) ==
    CASE value = "source" -> "get_bash_completion_script"
      [] value = "complete" -> "do_bash_complete"
      [] value = "source-fish" -> "get_fish_completion_script"
      [] value = "complete-fish" -> "do_fish_complete"
      [] value = "source-powershell" -> "get_zsh_completion_script"
      [] value = "complete-powershell" -> "do_zsh_complete"
      [] value = "source-zsh" -> "get_powershell_completion_script"
      [] value = "complete-zsh" -> "do_powershell_complete"
      [] OTHER -> "none"

\* the if/elif chain of lines 318-333: the routine called, if any
routine_for(value) ==
    CASE value = "source" -> "get_bash_completion_script"
      [] value = "complete" -> "do_bash_complete"
      [] value = "source-fish" -> "get_fish_completion_script"
      [] value = "complete-fish" -> "do_fish_complete"
      [] value = "source-powershell" -> "get_powershell_completion_script"
      [] value = "complete-powershell" -> "do_powershell_complete"
      [] value = "source-zsh" -> "get_zsh_completion_script"
      [] value = "complete-zsh" -> "do_zsh_complete"
      [] OTHER -> "none"

ScriptRoutines ==
    {"get_bash_completion_script", "get_fish_completion_script",
     "get_zsh_completion_script", "get_powershell_completion_script"}
CompleteRoutines ==
    {"do_bash_complete", "do_fish_complete", "do_zsh_complete",
     "do_powershell_complete"}

\* echo(get_..._completion_script(prog_name, complete_var)): the template,
\* filled in and stripped, as one element, then ';' and echo's newline
script_output(routine) == <<routine, ";", "\n">>

\* lines 314-316: the variable is unset or empty
ShellCompleteReturn ==
    /\ pc = "start"
    /\ instr = None \/ instr = Some("")
    /\ pc' = "returned"
    /\ UNCHANGED <<instr, line, cword, args, incomplete, quoted, quote, ctx, iters,
                   regime, choices, out, ran, tokens>>

\* a source instruction: the script is echoed, then sys.exit() of line 334
ShellCompleteSource ==
    /\ pc = "start"
    /\ instr # None /\ instr # Some("")
    /\ routine_for(instr[1]) \in ScriptRoutines
    /\ ran' = Append(ran, routine_for(instr[1]))
    /\ out' = out \o script_output(routine_for(instr[1]))
    /\ pc' = "exited"
    /\ UNCHANGED <<instr, line, cword, args, incomplete, quoted, quote, ctx, iters,
                   regime, choices, tokens>>

\* a complete instruction: the adapter is called
ShellCompleteRun ==
    /\ pc = "start"
    /\ instr # None /\ instr # Some("")
    /\ routine_for(instr[1]) \in CompleteRoutines
    /\ ran' = Append(ran, routine_for(instr[1]))
    /\ pc' = routine_for(instr[1])
    /\ UNCHANGED <<instr, line, cword, args, incomplete, quoted, quote, ctx, iters,
                   regime, choices, out, tokens>>

\* no branch of the chain matches: line 334, sys.exit(), is reached all the same
ShellCompleteOther ==
    /\ pc = "start"
    /\ instr # None /\ instr # Some("")
    /\ routine_for(instr[1]) = "none"
    /\ pc' = "exited"
    /\ UNCHANGED <<instr, line, cword, args, incomplete, quoted, quote, ctx, iters,
                   regime, choices, out, ran, tokens>>

LineChars == {"a", "-", " ", "\t", "\"", "'", "\\"}
\* the characters COMP_WORDS and COMMANDLINE are drawn from
EnvChars == {"a", " ", "\t", "\"", "\\"}

Instructions ==
    {"", "source", "complete", "source-fish", "complete-fish", "source-zsh",
     "complete-zsh", "source-powershell", "complete-powershell", "bogus", "Complete"}

\* The process starts with the environment the shell set: COMP_WORDS and
\* COMP_CWORD for complete, COMMANDLINE for the other complete instructions.
InitShell ==
    /\ pc = "start"
    /\ instr \in {None} \cup {Some(v) : v \in Instructions}
    /\ line \in IF instr # None /\ routine_for(instr[1]) \in CompleteRoutines
                THEN StringsUpTo(EnvChars, MaxLineLen) ELSE {<<>>}
    /\ cword \in IF instr = Some("complete") THEN 0..MaxCword ELSE {0}
    /\ args = <<>> /\ incomplete = <<>>
    /\ quoted = FALSE /\ quote = "single"
    /\ ctx = NoCtx /\ iters = 0 /\ regime = 0 /\ choices = <<>>
    /\ out = <<>> /\ ran = <<>> /\ tokens = <<>>

NextShell ==
    \/ ShellCompleteReturn
    \/ ShellCompleteSource
    \/ ShellCompleteRun
    \/ ShellCompleteOther
    \/ DoBashComplete
    \/ DoFishComplete
    \/ DoZshComplete
    \/ DoPowershellComplete
    \/ ResolveStart
    \/ ResolveDescend
    \/ ResolveFail
    \/ ResolveReturn
    \/ GetChoices
    \/ EmitBash
    \/ EmitFish
    \/ EmitZsh
    \/ EmitPowershell

Spec == InitShell /\ [][NextShell]_vars

----------------------------------------------------------------------------
(* Direct calls of split_args, single_quote and double_quote *)

SplitArgs ==
    /\ pc = "split_args"
    /\ tokens' = split_args(line)
    /\ pc' = "split_done"
    /\ UNCHANGED <<instr, line, cword, args, incomplete, quoted, quote, ctx, iters,
                   regime, choices, out, ran>>

InitSplit ==
    /\ pc = "split_args"
    /\ line \in StringsUpTo(LineChars, MaxLineLen)
    /\ instr = None /\ cword = 0 /\ args = <<>> /\ incomplete = <<>>
    /\ quoted = FALSE /\ quote = "single"
    /\ ctx = NoCtx /\ iters = 0 /\ regime = 0 /\ choices = <<>>
    /\ out = <<>> /\ ran = <<>> /\ tokens = <<>>

SpecSplit == InitSplit /\ [][SplitArgs]_vars

SingleQuote ==
    /\ pc = "quote"
    /\ out' = single_quote(line)
    /\ pc' = "single_quoted"
    /\ UNCHANGED <<instr, line, cword, args, incomplete, quoted, quote, ctx, iters,
                   regime, choices, ran, tokens>>

DoubleQuote ==
    /\ pc = "quote"
    /\ out' = double_quote(line)
    /\ pc' = "double_quoted"
    /\ UNCHANGED <<instr, line, cword, args, incomplete, quoted, quote, ctx, iters,
                   regime, choices, ran, tokens>>

QuoteChars == {"a", "0", "_", "-", "/", "'", "\"", "$", " "}

InitQuote ==
    /\ pc = "quote"
    /\ line \in StringsUpTo(QuoteChars, MaxQuoteLen)
    /\ instr = None /\ cword = 0 /\ args = <<>> /\ incomplete = <<>>
    /\ quoted = FALSE /\ quote = "single"
    /\ ctx = NoCtx /\ iters = 0 /\ regime = 0 /\ choices = <<>>
    /\ out = <<>> /\ ran = <<>> /\ tokens = <<>>

NextQuote ==
    \/ SingleQuote
    \/ DoubleQuote

SpecQuote == InitQuote /\ [][NextQuote]_vars

----------------------------------------------------------------------------
(* Claims about get_choices and resolve_ctx, under SpecChoices *)

Resolved == pc = "chosen" /\ ctx # NoCtx

\* the last element of args is a spelling, primary or secondary, of a
\* non-flag Option of the resolved command
PendingValue ==
    /\ args # <<>>
    /\ \E p \in Range(get_params(ctx.command)) :
          /\ p.class = "Option"
          /\ ~p.is_flag
          /\ Last(args) \in Range(p.opts) \cup Range(p.secondary_opts)

\* incomplete is non-empty and its first character is not alphanumeric
LooksLikeOption == incomplete # <<>> /\ ~IsAlnum(incomplete[1])

FirstMatchingRegime ==
    IF PendingValue THEN 1
    ELSE IF LooksLikeOption THEN 2
    ELSE IF IsMultiCommand(ctx.command) THEN 3
    ELSE 4

\* C1: whenever the context resolves, the candidates are those of exactly
\* one regime, the first that matches in the order option value, option
\* name, subcommand name, positional value.
C1_FirstRegimeWins ==
    Resolved =>
        /\ regime = FirstMatchingRegime
        /\ choices = gather(FirstMatchingRegime, optctx_of(ctx.command, args),
                            incomplete, ctx.command)

\* A pending value option wins although incomplete starts with "-": the
\* candidates are the option's values, not option names.
C1_Witness ==
    /\ Resolved
    /\ regime = 1
    /\ incomplete = <<"-">>
    /\ Last(args) = <<"-", "M">>
    /\ choices = << [item |-> <<"-", "x">>, help |-> None] >>

\* Option names win over subcommand names on a group.
C1_WitnessGroup ==
    /\ Resolved
    /\ regime = 2
    /\ IsMultiCommand(ctx.command)
    /\ choices # <<>>

UnknownSubcommand ==
    /\ pc = "resolve_loop"
    /\ IsMultiCommand(ctx.command)
    /\ ctx.residual # <<>>
    /\ ctx.residual[1] \notin Range(list_commands(ctx.command))

\* C2: when the first residual argument of a group context names no
\* subcommand, resolve_ctx returns None, and get_choices, given None, ends
\* with no candidates; neither step raises.
C2_SilentFailure ==
    [][ /\ UnknownSubcommand => (ctx' = NoCtx /\ pc' = "resolved")
        /\ (pc = "resolved" /\ ctx = NoCtx) =>
              (pc' = "chosen" /\ choices' = <<>> /\ regime' = 0) ]_vars

\* An unknown name met at the second level of the tree, with a non-empty
\* incomplete token.
C2_Witness ==
    /\ pc = "chosen"
    /\ ctx = NoCtx
    /\ iters = 2
    /\ incomplete = <<"-">>
    /\ choices = <<>>

RECURSIVE Spellings(_)
\* every spelling of every Option, in declaration order, primary spellings
\* (with the help) before secondary ones (without)
Spellings(params) ==
    IF params = <<>> THEN <<>>
    ELSE LET p == Head(params)
         IN  (IF p.class = "Option"
              THEN [i \in 1..Len(p.opts) |-> [item |-> p.opts[i], help |-> p.help]]
                   \o [i \in 1..Len(p.secondary_opts) |->
                          [item |-> p.secondary_opts[i], help |-> None]]
              ELSE <<>>)
             \o Spellings(Tail(params))

PrefixMatches(candidate) == StrStartsWith(candidate.item, incomplete)

\* C9: in option-name completion the candidates are exactly the Option
\* spellings that prefix-match incomplete, in declaration order, primary
\* before secondary, primary with the help and secondary with None.
C9_OptionNames ==
    (Resolved /\ ~PendingValue /\ LooksLikeOption) =>
        choices = SelectSeq(Spellings(get_params(ctx.command)), PrefixMatches)

C9_Witness ==
    /\ Resolved
    /\ regime = 2
    /\ ctx.command = "add"
    /\ incomplete = <<"-">>
    /\ Len(choices) = 5
    /\ choices[2] = [item |-> <<"-", "v">>, help |-> Some(<<"h", "v">>)]
    /\ choices[4] = [item |-> <<"-", "n">>, help |-> None]

\* C10: the descent loop ends: the iterations made plus the arguments left
\* never exceed len(args), in the loop some step can always be taken, and at
\* its end there is no context, a leaf, or a group with no residual.
C10_DescentTerminates ==
    /\ pc \in {"resolve_loop", "resolved", "chosen"} =>
          iters + Len(ctx.residual) <= Len(args)
    /\ pc = "resolve_loop" => ENABLED (ResolveDescend \/ ResolveFail \/ ResolveReturn)
    /\ pc \in {"resolved", "chosen"} =>
          \/ ctx = NoCtx
          \/ ~IsMultiCommand(ctx.command)
          \/ ctx.residual = <<>>

\* Two descents, the most two arguments allow, down to a leaf.
C10_Witness ==
    /\ pc = "resolved"
    /\ iters = 2
    /\ Len(args) = 2
    /\ ctx.command = "run"

----------------------------------------------------------------------------
(* Claims about _shellcomplete and the adapters, under Spec *)

RecognizedRoutine ==
    { <<"source", "get_bash_completion_script">>,
      <<"complete", "do_bash_complete">>,
      <<"source-fish", "get_fish_completion_script">>,
      <<"complete-fish", "do_fish_complete">>,
      <<"source-zsh", "get_zsh_completion_script">>,
      <<"complete-zsh", "do_zsh_complete">>,
      <<"source-powershell", "get_powershell_completion_script">>,
      <<"complete-powershell", "do_powershell_complete">> }

Recognized == {r[1] : r \in RecognizedRoutine}

\* C3: with the variable unset or empty no routine runs, nothing is written
\* and the process does not exit; with a recognized instruction exactly the
\* matching routine runs, control never returns to the caller, and the
\* process goes on until it has exited.
C3_Dispatch ==
    /\ (instr = None \/ instr = Some("")) =>
          /\ pc \in {"start", "returned"}
          /\ ran = <<>>
          /\ out = <<>>
    /\ \A r \in RecognizedRoutine :
          instr = Some(r[1]) =>
              /\ pc # "returned"
              /\ ran = IF pc = "start" THEN <<>> ELSE <<r[2]>>
              /\ pc # "exited" => ENABLED NextShell

C3_Witness ==
    /\ instr = Some("complete-zsh")
    /\ pc = "exited"
    /\ ran = <<"do_zsh_complete">>
    /\ choices # <<>>
    /\ out # <<>>

\* The no-op half of C3: an empty variable, control back at the caller.
C3_WitnessReturn ==
    /\ instr = Some("")
    /\ pc = "returned"

\* C4: with a non-empty value that is no recognized instruction, nothing is
\* written and the process does not exit: control returns to the caller.
C4_UnknownReturns ==
    (instr # None /\ instr # Some("") /\ instr[1] \notin Recognized) =>
        /\ pc \in {"start", "returned"}
        /\ out = <<>>

\* What the code does with such a value: it writes nothing, and exits.
C4_UnknownExits ==
    (instr # None /\ instr # Some("") /\ instr[1] \notin Recognized) =>
        /\ pc \in {"start", "exited"}
        /\ out = <<>>
        /\ ran = <<>>

CommandlineAdapter ==
    instr \in {Some("complete-fish"), Some("complete-zsh"), Some("complete-powershell")}

\* the tokens of COMMANDLINE after the program name
CommandlineTokens == Rest(split_args(line))

\* C6: in the adapters that read COMMANDLINE, if the line does not end in
\* whitespace the last token is the incomplete token and is taken off the
\* arguments; if it ends in whitespace, whichever whitespace character, the
\* incomplete token is empty and the arguments are whole.
C6_IncompleteDerivation ==
    (CommandlineAdapter /\ pc = "get_choices") =>
        IF line # <<>> /\ IsSpace(Last(line))
        THEN incomplete = <<>> /\ args = CommandlineTokens
        ELSE IF CommandlineTokens # <<>>
        THEN incomplete = Last(CommandlineTokens) /\ args = Front(CommandlineTokens)
        ELSE incomplete = <<>> /\ args = <<>>

\* What the code does: the same with "ends in a space character" for "ends
\* in whitespace".
C6_SpaceOnly ==
    (CommandlineAdapter /\ pc = "get_choices") =>
        IF line # <<>> /\ Last(line) = " "
        THEN incomplete = <<>> /\ args = CommandlineTokens
        ELSE IF CommandlineTokens # <<>>
        THEN incomplete = Last(CommandlineTokens) /\ args = Front(CommandlineTokens)
        ELSE incomplete = <<>> /\ args = <<>>

RECURSIVE Backslashed(_)
\* s with one backslash added before every whitespace, backslash,
\* double-quote and single-quote character
Backslashed(s) ==
    IF s = <<>> THEN <<>>
    ELSE (IF Head(s) \in {" ", "\t", "\n", "\r", "\f", "\\", "\"", "'"}
          THEN <<"\\">> ELSE <<>>)
         \o <<Head(s)>> \o Backslashed(Tail(s))

\* C7: do_bash_complete writes the candidates, help dropped, joined by tabs:
\* backslash-escaped if COMP_WORDS split cleanly, unchanged if it did not.
C7_BashEscaping ==
    (instr = Some("complete") /\ pc = "exited") =>
        out = Join(<<"\t">>,
                   [i \in 1..Len(choices) |->
                       IF Lex(line).err = "stop"
                       THEN Backslashed(choices[i].item)
                       ELSE choices[i].item])

\* A clean COMP_WORDS and candidates that need escaping.
C7_Witness ==
    /\ instr = Some("complete")
    /\ pc = "exited"
    /\ Lex(line).err = "stop"
    /\ \E i \in 1..Len(choices) : choices[i].item = <<"x", "'">>
    /\ out # Join(<<"\t">>, [i \in 1..Len(choices) |-> choices[i].item])

\* An unterminated quote in COMP_WORDS and the same candidates, unescaped.
C7_WitnessQuoted ==
    /\ instr = Some("complete")
    /\ pc = "exited"
    /\ Lex(line).err = "quote"
    /\ \E i \in 1..Len(choices) : choices[i].item = <<"x", "'">>
    /\ out = Join(<<"\t">>, [i \in 1..Len(choices) |-> choices[i].item])

----------------------------------------------------------------------------
(* Claims about split_args, under SpecSplit *)

\* the line has an unterminated quote: the lexer stopped on "No closing
\* quotation", with Lex(line).res complete and Lex(line).token in progress
UnterminatedQuote == pc = "split_done" /\ Lex(line).err = "quote"

\* C5: on a line with an unterminated quote split_args keeps the tokens
\* completed before the error, in order, and ends with the content of the
\* token in progress, also when that content is empty.
C5_PartialTokenLast ==
    UnterminatedQuote =>
        /\ tokens # <<>>
        /\ Last(tokens) = Lex(line).token
        /\ Front(tokens) = Lex(line).res

QuotePlaces == {i \in 1..Len(line) : line[i] \in {"'", "\""}}

\* the line holds one quote character and no backslash: the quote opens a
\* quotation that nothing closes
OneOpenQuote ==
    /\ Cardinality(QuotePlaces) = 1
    /\ \A i \in 1..Len(line) : line[i] # "\\"

QuotePlace == CHOOSE i \in QuotePlaces : TRUE

Blank == {" ", "\t", "\r", "\n"}

\* where the word that holds the quote starts
PartialStart ==
    LET before == {j \in 1..(QuotePlace - 1) : line[j] \in Blank}
    IN  IF before = {} THEN 1 ELSE 1 + CHOOSE j \in before : \A k \in before : k <= j

\* the token in progress without its quote character: the rest of its word
\* before the quote, and everything after the quote
PartialContent ==
    SubSeq(line, PartialStart, QuotePlace - 1) \o SubSeq(line, QuotePlace + 1, Len(line))

RECURSIVE Words(_, _)
\* the blank-separated words of a string without quotes or backslashes
Words(s, word) ==
    IF s = <<>> THEN (IF word = <<>> THEN <<>> ELSE <<word>>)
    ELSE IF Head(s) \in Blank
    THEN (IF word = <<>> THEN <<>> ELSE <<word>>) \o Words(Tail(s), <<>>)
    ELSE Words(Tail(s), Append(word, Head(s)))

\* C5 amended: on a line with an unterminated quote split_args does not
\* fail and keeps the tokens completed before the error, in order; the
\* content of the token in progress comes last when it is not empty, and is
\* left out when it is empty.
C5_NonEmptyPartialLast ==
    /\ UnterminatedQuote =>
          tokens = Lex(line).res
                   \o (IF Lex(line).token # <<>> THEN <<Lex(line).token>> ELSE <<>>)
    /\ (pc = "split_done" /\ OneOpenQuote) =>
          /\ Lex(line).err = "quote"
          /\ tokens = Words(SubSeq(line, 1, PartialStart - 1), <<>>)
                      \o (IF PartialContent # <<>> THEN <<PartialContent>> ELSE <<>>)

\* A quote opened after a completed token, with a blank typed inside it.
C5_Witness ==
    /\ pc = "split_done"
    /\ line = <<"a", " ", "\"", " ">>
    /\ tokens = << <<"a">>, <<" ">> >>

\* The line ends right after the opening quote: nothing is appended.
C5_WitnessEmpty ==
    /\ pc = "split_done"
    /\ line = <<"a", " ", "\"">>
    /\ tokens = << <<"a">> >>

----------------------------------------------------------------------------
(* Claims about single_quote and double_quote, under SpecQuote *)

\* the characters of [\w@%+=:,./-] among those drawn
SafeSet == {"a", "0", "_", "@", "%", "+", "=", ":", ",", ".", "/", "-"}

OnlySafe == \A i \in 1..Len(line) : line[i] \in SafeSet

\* C8: a string of safe characters only, the empty string included, is
\* returned as it is by single_quote and by double_quote.
C8_SafeUnchanged ==
    (OnlySafe /\ pc \in {"single_quoted", "double_quoted"}) => out = line

\* C8 amended: a non-empty string of safe characters only is returned as it
\* is; the empty string becomes '' (single_quote) or "" (double_quote).
C8_NonEmptySafeUnchanged ==
    /\ (OnlySafe /\ line # <<>> /\ pc \in {"single_quoted", "double_quoted"}) =>
          out = line
    /\ (line = <<>> /\ pc = "single_quoted") => out = <<"'", "'">>
    /\ (line = <<>> /\ pc = "double_quoted") => out = <<"\"", "\"">>

C8_Witness ==
    /\ pc = "double_quoted"
    /\ line = <<"a", "-", "/">>
    /\ out = line

====
